---- MODULE Spec2Model ----
(***************************************************************************)
(* Workflow graph mutation and validation engine of n8n-mcp.               *)
(*                                                                         *)
(* The model follows src/src/index.ts: updatePartialWorkflowHandler (the   *)
(* diff-operation loop and its write-back), validateWorkflowHandler and    *)
(* autofixWorkflowHandler, and the CallTool request handler of             *)
(* src/src/server.ts that dispatches to them.                              *)
(* The n8n REST API behind N8nApiClient is the environment: it holds one   *)
(* workflow document (`remote`), returns it on getWorkflow and replaces it *)
(* on updateWorkflow; either call may fail.                                *)
(*                                                                         *)
(* JavaScript objects are functions from field names to values; a field    *)
(* that is absent is not in the DOMAIN. Array indices and the loop counter *)
(* are 0-based as in the source; nodes[k] of the source is nodes[k+1].     *)
(***************************************************************************)
EXTENDS Integers, Sequences, FiniteSets, TLC

\* ------------------------------------------------------------------------
\* Bounds
\* ------------------------------------------------------------------------

\* longest args.operations explored
MaxOps == 2

\* autofix_workflow is not called any more once this many updateWorkflow
\* calls were made
MaxWrites == 2

\* ------------------------------------------------------------------------
\* JavaScript values
\* ------------------------------------------------------------------------

\* the value of an absent string-valued property
Undef == "undefined"

\* `undefined` as an array element (nodes.push(op.node) with no op.node)
UndefinedNode == [undefined |-> TRUE]

\* what JSON.stringify turns an `undefined` array element into
NullNode == [null |-> TRUE]

\* property access on undefined/null throws a TypeError
IsNullish(n) == "undefined" \in DOMAIN n \/ "null" \in DOMAIN n

\* o.f for a string-valued property f of an object o
Get(o, f) == IF f \in DOMAIN o THEN o[f] ELSE Undef

\* !o.f for a string-valued property: absent and "" are falsy
Falsy(o, f) == Get(o, f) \in {Undef, ""}

\* !o.f for a boolean property: absent and false are falsy
FalsyFlag(o, f) == f \notin DOMAIN o \/ o[f] = FALSE

\* { ...a, ...b }
Spread(a, b) ==
    [f \in (DOMAIN a) \cup (DOMAIN b) |-> IF f \in DOMAIN b THEN b[f] ELSE a[f]]

\* a.x || b for strings: the first operand unless it is falsy
OrElse(a, b) == IF a \in {Undef, ""} THEN b ELSE a

\* the body axios sends: JSON.stringify writes undefined array elements as null
RECURSIVE ToJSONNodes(_)
ToJSONNodes(nodes) ==
    IF nodes = << >> THEN << >>
    ELSE << (IF "undefined" \in DOMAIN Head(nodes) THEN NullNode ELSE Head(nodes)) >>
            \o ToJSONNodes(Tail(nodes))

ToJSON(wf) == [wf EXCEPT !.nodes = ToJSONNodes(wf.nodes)]

\* ------------------------------------------------------------------------
\* Workflow documents the remote store may hold (types/tools.ts)
\* ------------------------------------------------------------------------

NodeStart == [id |-> "a", name |-> "Start", type |-> "n8n-nodes-base.manualTrigger",
              typeVersion |-> 1, position |-> <<0, 0>>, parameters |-> [mode |-> "manual"]]

NodeEnd == [id |-> "b", name |-> "End", type |-> "n8n-nodes-base.set",
            typeVersion |-> 1, position |-> <<200, 0>>, parameters |-> [mode |-> "manual"],
            disabled |-> TRUE]

\* a node saved without an id (validateWorkflowHandler reports it)
NodeLegacy == [name |-> "Legacy", type |-> "n8n-nodes-base.noOp",
               typeVersion |-> 1, position |-> <<100, 0>>, parameters |-> [mode |-> "manual"]]

\* a node saved without a type
NodeNoType == [id |-> "t", name |-> "Typeless",
               typeVersion |-> 1, position |-> <<300, 0>>, parameters |-> [mode |-> "manual"]]

\* connections in Object.entries order:
\* << <<source, << <<outputType, groups>> >> >> >>, groups = Seq(Seq(target))
NoConnections == << >>

ConnStartEnd ==
    << << "Start", << << "main", << << [node |-> "End", type |-> "main", index |-> 0] >> >> >> >> >> >>

Settings0 == [executionOrder |-> "v0", timezone |-> "UTC"]

Workflow(nodes, connections) ==
    [id |-> "wf1", name |-> "My workflow", nodes |-> nodes,
     connections |-> connections, settings |-> Settings0]

InitialWorkflows ==
    { Workflow(<<NodeStart>>, NoConnections),
      Workflow(<<NodeStart, NodeEnd>>, ConnStartEnd),
      Workflow(<<NodeLegacy, NodeStart, NodeEnd>>, ConnStartEnd),
      Workflow(<<NodeNoType, NodeStart, NodeEnd>>, ConnStartEnd) }

\* a node saved without typeVersion; its parameter holds an expression
NodeHttp == [id |-> "h", name |-> "Fetch", type |-> "n8n-nodes-base.httpRequest",
             position |-> <<400, 0>>, parameters |-> [url |-> "={{ $json.url }}"]]

\* a node saved without typeVersion and well-formed otherwise
NodeOld == [id |-> "o", name |-> "Old", type |-> "n8n-nodes-base.set",
            position |-> <<300, 100>>, parameters |-> [mode |-> "manual"]]

\* a node whose type contains 'Webhook' and whose parameters have no path
NodeRespond == [id |-> "r", name |-> "Reply To Caller",
                type |-> "n8n-nodes-base.respondToWebhook",
                typeVersion |-> 1, position |-> <<500, 0>>,
                parameters |-> [respondWith |-> "json"]]

\* two nodes of one name (addNode does not check names): the older one at
\* typeVersion 3, the newer one added without typeVersion
NodeMerge == [id |-> "m", name |-> "Merge", type |-> "n8n-nodes-base.merge",
              typeVersion |-> 3, position |-> <<600, 0>>, parameters |-> [mode |-> "append"]]

NodeMergeCopy == [id |-> "m2", name |-> "Merge", type |-> "n8n-nodes-base.merge",
                  position |-> <<600, 100>>, parameters |-> [mode |-> "append"]]

\* a node saved without a name, and without typeVersion
NodeNameless == [id |-> "x", type |-> "n8n-nodes-base.noOp",
                 position |-> <<700, 0>>, parameters |-> [mode |-> "manual"]]

\* a node whose position has three coordinates
NodeNote == [id |-> "n", name |-> "Note", type |-> "n8n-nodes-base.stickyNote",
             typeVersion |-> 1, position |-> <<0, 0, 0>>, parameters |-> [content |-> "todo"]]

\* a node saved without position and without parameters
NodePlain == [id |-> "p", name |-> "Plain", type |-> "n8n-nodes-base.noOp", typeVersion |-> 1]

\* a node of a community package whose type contains 'Schedule'
NodeSchedule == [id |-> "s", name |-> "Daily", type |-> "n8n-nodes-custom.dailySchedule",
                 typeVersion |-> 1, position |-> <<800, 0>>,
                 parameters |-> [mode |-> "manual"]]

\* a node that has only parameters: no id, no name, no type, no position
NodeBare == [parameters |-> [mode |-> "manual"]]

\* Start -> End, Start -> Gone (twice), and a source key Ghost
ConnDangling ==
    << << "Start", << << "main", << << [node |-> "End", type |-> "main", index |-> 0],
                                       [node |-> "Gone", type |-> "main", index |-> 0] >>,
                                    << [node |-> "Gone", type |-> "main", index |-> 1] >> >> >> >> >>,
       << "Ghost", << << "main", << << [node |-> "Start", type |-> "main", index |-> 0] >> >> >> >> >> >>

\* documents the store may hold when validate_workflow or autofix_workflow
\* is called: saved by the n8n editor, by createWorkflow or by an earlier
\* apply_partial_update (none of which checks node fields or names)
StoredWorkflows ==
    InitialWorkflows \cup
    { Workflow(<<NodeStart, NodeEnd>>, ConnDangling),
      Workflow(<<NodeLegacy, NodeStart>>, ConnDangling),
      Workflow(<<NodeNoType, NodeStart>>, ConnDangling),
      Workflow(<<NodeStart, NodeOld>>, NoConnections),
      Workflow(<<NodeStart, NodeEnd, NodeOld>>, ConnStartEnd),
      Workflow(<<NodeStart, NodeOld, NodeHttp>>, NoConnections),
      Workflow(<<NodeStart, NodeHttp, NodeRespond>>, NoConnections),
      Workflow(<<NodeStart, NodeMerge, NodeMergeCopy>>, NoConnections),
      Workflow(<<NodeStart, NodeNameless, NodeNote>>, NoConnections),
      Workflow(<<NodeStart, NodePlain>>, NoConnections),
      Workflow(<<NodeSchedule, NodeStart, NodeRespond>>, NoConnections),
      Workflow(<<NodeBare, NodeStart, NodeEnd>>, ConnStartEnd) }

\* ------------------------------------------------------------------------
\* Diff operations a caller may send (args.operations[i])
\* ------------------------------------------------------------------------

AddNodeOps ==
    { [type |-> "addNode", node |-> NodeEnd],
      [type |-> "addNode", node |-> NodeLegacy],
      [type |-> "addNode"] }

\* how an operation names a node: nodeId and/or nodeName
LookupKeys ==
    { [nodeName |-> "Missing"],
      [nodeName |-> "End"],
      [nodeId |-> "b", nodeName |-> "Start"] }

RemoveNodeOps == { Spread([type |-> "removeNode"], k) : k \in LookupKeys }

UpdateNodeOps ==
    { Spread([type |-> "updateNode", updates |-> [name |-> "Renamed", notes |-> "n"]], k) :
        k \in { [nodeName |-> "Missing"], [nodeName |-> "End"],
                [nodeId |-> "a", nodeName |-> "Start"] } }

ToggleNodeOps ==
    { Spread([type |-> t], k) :
        t \in {"enableNode", "disableNode"},
        k \in { [nodeName |-> "Missing"], [nodeName |-> "End"] } }
    \ { [type |-> "enableNode", nodeName |-> "Missing"] }

AddConnectionOps ==
    { [type |-> "addConnection", source |-> "Start", target |-> "End"] }

RemoveConnectionOps ==
    { [type |-> "removeConnection", source |-> "Start", target |-> "End"] }

UpdateNameOps == { [type |-> "updateName", name |-> "Renamed workflow"] }

UpdateSettingsOps == { [type |-> "updateSettings", settings |-> [timezone |-> "CET"]] }

\* accepted by PartialUpdateOperationSchema but without a case in the switch
OtherOps ==
    { [type |-> "moveNode", nodeName |-> "Start", position |-> <<5, 5>>],
      [type |-> "addTag", tag |-> "prod"],
      [type |-> "removeTag", tag |-> "prod"] }

\* the operation types PartialUpdateOperationSchema accepts and the tool
\* description lists
PartialUpdateOperationTypes ==
    { "addNode", "removeNode", "updateNode", "moveNode", "enableNode",
      "disableNode", "addConnection", "removeConnection", "updateName",
      "updateSettings", "addTag", "removeTag" }

NoOp == [type |-> "none"]

\* ------------------------------------------------------------------------
\* State
\* ------------------------------------------------------------------------

VARIABLES
    remote,           \* the workflow document held by the n8n instance
    pc,               \* "idle", "loop", "exit" (left the for loop), "done"
    validateOnly,     \* args.validateOnly
    continueOnError,  \* args.continueOnError
    numOps,           \* args.operations.length
    workflow,         \* the fetched document, mutated in place
    i,                \* loop counter
    op,               \* args.operations[i] of the iteration last entered
    applied,          \* applied records
    failed,           \* failed records
    modified,         \* the handler's modified flag
    writes,           \* number of client.updateWorkflow calls made
    response,         \* what the tool call returned ("none" while it runs)
    fetched,          \* history: the document as fetched
    sent,             \* history: the body of the last updateWorkflow call
    trace,            \* history: each iteration entered, [op, before: the working document then]
    request,          \* request.params of the CallTool request being served: name and arguments
    io,               \* history: the Remote Sync calls of the tool call being served, [call, ok]
    rival             \* a second invocation in flight at the same time: its position and locals

call == <<validateOnly, continueOnError, numOps>>
locals == <<workflow, i, op, applied, failed, modified>>
history == <<fetched, sent, trace>>
vars == <<remote, pc, validateOnly, continueOnError, numOps, workflow, i, op,
          applied, failed, modified, writes, response, fetched, sent, trace,
          request, io, rival>>

NoResponse == [kind |-> "none"]

\* the result of the outer catch: { content: [...], isError: true }
ErrorResponse == [kind |-> "error", isError |-> TRUE]
NothingSent == [nothing |-> TRUE]

\* no second invocation has started
NoRival == [pc |-> "idle"]

\* no CallTool request has been received yet
NoRequest == [name |-> "none"]

\* one call of the API client, and whether it returned or threw
GetWorkflow(ok) == [call |-> "getWorkflow", ok |-> ok]
UpdateWorkflow(ok) == [call |-> "updateWorkflow", ok |-> ok]

\* the positions of the updateWorkflow calls in a log of API calls
Writes(log) == { j \in 1..Len(log) : log[j].call = "updateWorkflow" }

Init ==
    /\ remote \in InitialWorkflows
    /\ pc = "idle"
    /\ validateOnly = FALSE
    /\ continueOnError = FALSE
    /\ numOps = 0
    /\ workflow = remote
    /\ i = 0
    /\ op = NoOp
    /\ applied = << >>
    /\ failed = << >>
    /\ modified = FALSE
    /\ writes = 0
    /\ response = NoResponse
    /\ fetched = remote
    /\ sent = NothingSent
    /\ trace = << >>
    /\ request = NoRequest
    /\ io = << >>
    /\ rival = NoRival

\* ------------------------------------------------------------------------
\* apply_partial_update: updatePartialWorkflowHandler
\* ------------------------------------------------------------------------

\* the message of the TypeError thrown by reading property f of undefined
TypeErrorReading(f) == "Cannot read properties of undefined (reading '" \o f \o "')"

\* n => n.id === op.nodeId || n.name === op.nodeName
Matches(n, o) == \/ Get(n, "id") = Get(o, "nodeId")
                 \/ Get(n, "name") = Get(o, "nodeName")

\* workflow.nodes.findIndex(n => n.id === op.nodeId || n.name === op.nodeName):
\* the 0-based index of the first match, -1 when there is none; the
\* predicate throws when it reaches an undefined element first
FindIndex(nodes, o) ==
    LET stops == { k \in 1..Len(nodes) : IsNullish(nodes[k]) \/ Matches(nodes[k], o) }
        first == CHOOSE k \in stops : \A j \in stops : k <= j
    IN  IF stops = {} THEN [threw |-> FALSE, index |-> -1]
        ELSE IF IsNullish(nodes[first]) THEN [threw |-> TRUE, index |-> -1]
        ELSE [threw |-> FALSE, index |-> first - 1]

\* nodes.splice(index, 1)
Splice(nodes, index) ==
    [k \in 1..(Len(nodes) - 1) |-> IF k <= index THEN nodes[k] ELSE nodes[k + 1]]

\* `Node not found: ${op.nodeId || op.nodeName}`
NodeNotFound(o) == "Node not found: " \o OrElse(Get(o, "nodeId"), Get(o, "nodeName"))

\* modified = true; applied.push(record); break;  then i++
OpApplied(o, wf, record) ==
    /\ op' = o
    /\ workflow' = wf
    /\ modified' = TRUE
    /\ applied' = Append(applied, record)
    /\ failed' = failed
    /\ i' = i + 1
    /\ pc' = "loop"
    /\ sent' = sent
    /\ trace' = Append(trace, [op |-> o, before |-> workflow])

\* the catch block without its break: the loop goes on under either policy
OpFailedNoBreak(o, wf, mod, message) ==
    /\ op' = o
    /\ workflow' = wf
    /\ modified' = mod
    /\ applied' = applied
    /\ failed' = Append(failed, [index |-> i, type |-> o.type, error |-> message])
    /\ i' = i + 1
    /\ pc' = "loop"
    /\ sent' = sent
    /\ trace' = Append(trace, [op |-> o, before |-> workflow])

\* the catch block without its failed.push
OpFailedUnrecorded(o, wf, mod, message) ==
    /\ op' = o
    /\ workflow' = wf
    /\ modified' = mod
    /\ applied' = applied
    /\ failed' = failed
    /\ i' = IF continueOnError THEN i + 1 ELSE i
    /\ pc' = IF continueOnError THEN "loop" ELSE "exit"
    /\ sent' = sent
    /\ trace' = Append(trace, [op |-> o, before |-> workflow])

\* the catch block: failed.push(...); if (!args.continueOnError) break;
OpFailed(o, wf, mod, message) ==
    /\ op' = o
    /\ workflow' = wf
    /\ modified' = mod
    /\ applied' = applied
    /\ failed' = Append(failed, [index |-> i, type |-> o.type, error |-> message])
    /\ i' = IF continueOnError THEN i + 1 ELSE i
    /\ pc' = IF continueOnError THEN "loop" ELSE "exit"
    /\ sent' = sent
    /\ trace' = Append(trace, [op |-> o, before |-> workflow])

InLoop == pc = "loop" /\ i < numOps

\* getApiClient().getWorkflow(args.id) succeeded; the loop is about to start
StartPartialUpdate ==
    /\ pc = "idle"
    /\ \E v \in BOOLEAN, c \in BOOLEAN, n \in 0..MaxOps :
        /\ validateOnly' = v
        /\ continueOnError' = c
        /\ numOps' = n
    /\ workflow' = remote
    /\ fetched' = remote
    /\ sent' = NothingSent
    /\ trace' = << >>
    /\ i' = 0
    /\ op' = NoOp
    /\ applied' = << >>
    /\ failed' = << >>
    /\ modified' = FALSE
    /\ pc' = "loop"
    /\ response' = NoResponse
    /\ request' = [name |-> "n8n_update_partial_workflow"]
    /\ io' = <<GetWorkflow(TRUE)>>
    /\ UNCHANGED <<remote, writes, rival>>

\* getWorkflow threw: the outer catch returns the error result
FetchFails ==
    /\ pc = "idle"
    /\ pc' = "done"
    /\ response' = ErrorResponse
    /\ request' = [name |-> "n8n_update_partial_workflow"]
    /\ io' = <<GetWorkflow(FALSE)>>
    /\ UNCHANGED <<remote, call, rival, locals, writes, history>>

\* case 'addNode'
AddNode ==
    /\ InLoop
    /\ \E o \in AddNodeOps :
        LET node == IF "node" \in DOMAIN o THEN o.node ELSE UndefinedNode
            pushed == [workflow EXCEPT !.nodes = Append(@, node)]
        IN  IF IsNullish(node)
            THEN OpFailed(o, pushed, TRUE, TypeErrorReading("name"))
            ELSE OpApplied(o, pushed,
                           [index |-> i, type |-> o.type, nodeName |-> Get(node, "name")])
    /\ UNCHANGED <<remote, call, rival, writes, response, fetched, request, io>>

\* case 'removeNode'
RemoveNode ==
    /\ InLoop
    /\ \E o \in RemoveNodeOps :
        LET removeIndex == FindIndex(workflow.nodes, o)
        IN  IF removeIndex.threw
            THEN OpFailed(o, workflow, modified, TypeErrorReading("id"))
            ELSE IF removeIndex.index >= 0
            THEN OpApplied(o, [workflow EXCEPT !.nodes = Splice(@, removeIndex.index)],
                           [index |-> i, type |-> o.type])
            ELSE OpFailed(o, workflow, modified, NodeNotFound(o))
    /\ UNCHANGED <<remote, call, rival, writes, response, fetched, request, io>>

\* case 'updateNode'
UpdateNode ==
    /\ InLoop
    /\ \E o \in UpdateNodeOps :
        LET updateIndex == FindIndex(workflow.nodes, o)
            k == updateIndex.index + 1
            merged == Spread(workflow.nodes[k], o.updates)
        IN  IF updateIndex.threw
            THEN OpFailed(o, workflow, modified, TypeErrorReading("id"))
            ELSE IF updateIndex.index >= 0
            THEN OpApplied(o, [workflow EXCEPT !.nodes[k] = merged],
                           [index |-> i, type |-> o.type, nodeName |-> Get(merged, "name")])
            ELSE OpFailed(o, workflow, modified, NodeNotFound(o))
    /\ UNCHANGED <<remote, call, rival, writes, response, fetched, request, io>>

\* case 'enableNode': case 'disableNode'
ToggleNode ==
    /\ InLoop
    /\ \E o \in ToggleNodeOps :
        LET toggleIndex == FindIndex(workflow.nodes, o)
            k == toggleIndex.index + 1
            toggled == Spread(workflow.nodes[k], [disabled |-> (o.type = "disableNode")])
        IN  IF toggleIndex.threw
            THEN OpFailed(o, workflow, modified, TypeErrorReading("id"))
            ELSE IF toggleIndex.index >= 0
            THEN OpApplied(o, [workflow EXCEPT !.nodes[k] = toggled],
                           [index |-> i, type |-> o.type, nodeName |-> Get(toggled, "name")])
            ELSE OpFailed(o, workflow, modified, NodeNotFound(o))
    /\ UNCHANGED <<remote, call, rival, writes, response, fetched, request, io>>

\* case 'addConnection': the body only sets the flag and records the operation
AddConnection ==
    /\ InLoop
    /\ \E o \in AddConnectionOps :
        OpApplied(o, workflow, [index |-> i, type |-> o.type])
    /\ UNCHANGED <<remote, call, rival, writes, response, fetched, request, io>>

\* case 'removeConnection': the body only sets the flag and records the operation
RemoveConnection ==
    /\ InLoop
    /\ \E o \in RemoveConnectionOps :
        OpApplied(o, workflow, [index |-> i, type |-> o.type])
    /\ UNCHANGED <<remote, call, rival, writes, response, fetched, request, io>>

\* case 'updateName'
UpdateName ==
    /\ InLoop
    /\ \E o \in UpdateNameOps :
        OpApplied(o, [workflow EXCEPT !.name = o.name],
                  [index |-> i, type |-> o.type, newName |-> o.name])
    /\ UNCHANGED <<remote, call, rival, writes, response, fetched, request, io>>

\* case 'updateSettings'
UpdateSettings ==
    /\ InLoop
    /\ \E o \in UpdateSettingsOps :
        OpApplied(o, [workflow EXCEPT !.settings = Spread(@, o.settings)],
                  [index |-> i, type |-> o.type])
    /\ UNCHANGED <<remote, call, rival, writes, response, fetched, request, io>>

\* default: throw new Error(`Unknown operation type: ${op.type}`)
\* a default branch that accepts the operation the way the connection cases do
UnknownOperationAccepted ==
    /\ InLoop
    /\ \E o \in OtherOps :
        OpApplied(o, workflow, [index |-> i, type |-> o.type])
    /\ UNCHANGED <<remote, call, rival, writes, response, fetched, request, io>>

UnknownOperation ==
    /\ InLoop
    /\ \E o \in OtherOps :
        OpFailed(o, workflow, modified, "Unknown operation type: " \o o.type)
    /\ UNCHANGED <<remote, call, rival, writes, response, fetched, request, io>>

\* the for loop is over: i reached operations.length, or the catch block broke out
LoopOver == pc = "exit" \/ (pc = "loop" /\ i >= numOps)

\* if (args.validateOnly) return { validated: true, ... }
ReturnValidated ==
    /\ LoopOver
    /\ validateOnly
    /\ pc' = "done"
    /\ response' = [kind |-> "validated", validated |-> TRUE,
                    wouldApply |-> Len(applied), wouldFail |-> Len(failed),
                    operations |-> applied, failures |-> failed]
    /\ UNCHANGED <<remote, call, rival, locals, writes, history, request, io>>

SuccessResponse ==
    [kind |-> "success", success |-> TRUE,
     applied |-> Len(applied), failed |-> Len(failed),
     operations |-> applied, failures |-> failed]

\* how the PUT can end: the document is stored and the reply arrives; the
\* request is rejected or never arrives; the document is stored but the
\* reply is lost (timeout), which the client sees as an error
PutOutcomes == {"stored", "rejected", "lost"}

\* the write-back placed before the validateOnly return
WriteBackOnDryRun ==
    /\ LoopOver
    /\ modified
    /\ writes' = writes + 1
    /\ sent' = ToJSON(workflow)
    /\ pc' = "done"
    /\ \E outcome \in PutOutcomes :
        /\ remote' = IF outcome = "rejected" THEN remote ELSE ToJSON(workflow)
        /\ response' = IF outcome = "stored" THEN SuccessResponse ELSE ErrorResponse
        /\ io' = Append(io, UpdateWorkflow(outcome = "stored"))
    /\ UNCHANGED <<call, rival, locals, fetched, trace, request>>

\* the write-back without the test of the modified flag
WriteBackUnconditional ==
    /\ LoopOver
    /\ ~validateOnly
    /\ writes' = writes + 1
    /\ sent' = ToJSON(workflow)
    /\ pc' = "done"
    /\ \E outcome \in PutOutcomes :
        /\ remote' = IF outcome = "rejected" THEN remote ELSE ToJSON(workflow)
        /\ response' = IF outcome = "stored" THEN SuccessResponse ELSE ErrorResponse
        /\ io' = Append(io, UpdateWorkflow(outcome = "stored"))
    /\ UNCHANGED <<call, rival, locals, fetched, trace, request>>

\* updateWorkflow wrapped in a try block of its own that drops the error
WriteBackSwallowsFailure ==
    /\ LoopOver
    /\ ~validateOnly
    /\ modified
    /\ writes' = writes + 1
    /\ sent' = ToJSON(workflow)
    /\ pc' = "done"
    /\ \E outcome \in PutOutcomes :
        /\ remote' = IF outcome = "rejected" THEN remote ELSE ToJSON(workflow)
        /\ response' = SuccessResponse
        /\ io' = Append(io, UpdateWorkflow(outcome = "stored"))
    /\ UNCHANGED <<call, rival, locals, fetched, trace, request>>

\* a write-back that fetches again first and gives up, without a PUT, when
\* the stored document is no longer the one it fetched
WriteBackIfUnchanged ==
    /\ LoopOver
    /\ ~validateOnly
    /\ modified
    /\ pc' = "done"
    /\ IF remote = fetched
       THEN /\ writes' = writes + 1
            /\ sent' = ToJSON(workflow)
            /\ \E outcome \in PutOutcomes :
                /\ remote' = IF outcome = "rejected" THEN remote ELSE ToJSON(workflow)
                /\ response' = IF outcome = "stored" THEN SuccessResponse ELSE ErrorResponse
                /\ io' = Append(io, UpdateWorkflow(outcome = "stored"))
       ELSE /\ response' = ErrorResponse
            /\ UNCHANGED <<remote, writes, sent, io>>
    /\ UNCHANGED <<call, rival, locals, fetched, trace, request>>

\* if (modified) await client.updateWorkflow(args.id, workflow); the PUT
\* replaces the remote document, or throws into the outer catch
WriteBack ==
    /\ LoopOver
    /\ ~validateOnly
    /\ modified
    /\ writes' = writes + 1
    /\ sent' = ToJSON(workflow)
    /\ pc' = "done"
    /\ \E outcome \in PutOutcomes :
        /\ remote' = IF outcome = "rejected" THEN remote ELSE ToJSON(workflow)
        /\ response' = IF outcome = "stored" THEN SuccessResponse ELSE ErrorResponse
        /\ io' = Append(io, UpdateWorkflow(outcome = "stored"))
    /\ UNCHANGED <<call, rival, locals, fetched, trace, request>>

\* modified is false: nothing is sent
ReturnUnmodified ==
    /\ LoopOver
    /\ ~validateOnly
    /\ ~modified
    /\ pc' = "done"
    /\ response' = SuccessResponse
    /\ UNCHANGED <<remote, call, rival, locals, writes, history, request, io>>

\* ------------------------------------------------------------------------
\* validate_workflow: validateWorkflowHandler
\* ------------------------------------------------------------------------

\* args.options as a caller may send it (absent options is the empty object)
ValidateOptions ==
    { << >>,
      [validateConnections |-> FALSE],
      [validateNodes |-> FALSE],
      [validateNodes |-> FALSE, validateConnections |-> FALSE, validateExpressions |-> FALSE] }

\* the test written as `if (options.f)`: a flag left out switches the check off
CheckEnabledIfTruthy(options, f) == f \in DOMAIN options /\ options[f] = TRUE

\* options.f !== false
CheckEnabled(options, f) == f \notin DOMAIN options \/ options[f] # FALSE

RECURSIVE Flatten(_)
Flatten(seqs) == IF seqs = << >> THEN << >> ELSE Head(seqs) \o Flatten(Tail(seqs))

\* the errors one node adds in the "Validate nodes" loop
NodeErrorsOf(node) ==
    (IF Falsy(node, "id")
        THEN << [node |-> Get(node, "name"), message |-> "Missing node ID"] >> ELSE << >>)
    \o (IF Falsy(node, "name")
        THEN << [node |-> Get(node, "id"), message |-> "Missing node name"] >> ELSE << >>)
    \o (IF Falsy(node, "type")
        THEN << [node |-> Get(node, "name"), message |-> "Missing node type"] >> ELSE << >>)

\* the warning one node adds: !node.position || node.position.length !== 2
NodeWarningsOf(node) ==
    IF "position" \notin DOMAIN node \/ Len(node.position) # 2
    THEN << [node |-> Get(node, "name"), message |-> "Invalid or missing position"] >>
    ELSE << >>

\* new Set(workflow.nodes.map(n => n.name))
NodeNames(nodes) == { Get(nodes[k], "name") : k \in 1..Len(nodes) }

\* the errors of one target list of one output of sourceNode
TargetErrors(sourceNode, targets, nodeNames) ==
    Flatten([t \in 1..Len(targets) |->
        IF targets[t].node \notin nodeNames
        THEN << [connection |-> sourceNode \o " -> " \o targets[t].node,
                 message |-> "Target node not found: " \o targets[t].node] >>
        ELSE << >>])

\* the errors one entry of Object.entries(workflow.connections) adds
ConnectionErrorsOf(entry, nodeNames) ==
    LET sourceNode == entry[1]
        outputs == entry[2]
    IN  (IF sourceNode \notin nodeNames
            THEN << [connection |-> sourceNode,
                     message |-> "Source node not found: " \o sourceNode] >>
            ELSE << >>)
        \o Flatten([o \in 1..Len(outputs) |->
              Flatten([g \in 1..Len(outputs[o][2]) |->
                  TargetErrors(sourceNode, outputs[o][2][g], nodeNames)])])

\* n.type.includes('Trigger') || n.type.includes('Webhook'), case-sensitive,
\* tabulated for the node types of this model
IsTriggerType(type) ==
    type \in { "n8n-nodes-base.manualTrigger", "n8n-nodes-base.respondToWebhook" }

\* get_workflow in details mode: n.type.includes('Trigger') ||
\* n.type.includes('Webhook') || n.type.includes('Schedule'), tabulated
IsTriggerTypeInDetails(type) ==
    type \in { "n8n-nodes-base.manualTrigger", "n8n-nodes-base.respondToWebhook",
               "n8n-nodes-custom.dailySchedule" }

\* triggerNodes of get_workflow in details mode
DetailsTriggerNodes(wf) ==
    Cardinality({ k \in 1..Len(wf.nodes) : IsTriggerTypeInDetails(wf.nodes[k].type) })

\* a property of undefined/null, or a method of an undefined value, is read
ValidationThrows(wf, options) ==
    \/ \E k \in 1..Len(wf.nodes) : IsNullish(wf.nodes[k])
    \/ /\ CheckEnabled(options, "validateExpressions")
       /\ \E k \in 1..Len(wf.nodes) : "parameters" \notin DOMAIN wf.nodes[k]
    \/ \E k \in 1..Len(wf.nodes) : "type" \notin DOMAIN wf.nodes[k]

\* the result of validateWorkflowHandler on the fetched document wf
ValidationResult(wf, options) ==
    LET errors ==
            (IF CheckEnabled(options, "validateNodes")
                THEN Flatten([k \in 1..Len(wf.nodes) |-> NodeErrorsOf(wf.nodes[k])])
                ELSE << >>)
            \o (IF CheckEnabled(options, "validateConnections")
                THEN Flatten([e \in 1..Len(wf.connections) |->
                        ConnectionErrorsOf(wf.connections[e], NodeNames(wf.nodes))])
                ELSE << >>)
        warnings ==
            IF CheckEnabled(options, "validateNodes")
            THEN Flatten([k \in 1..Len(wf.nodes) |-> NodeWarningsOf(wf.nodes[k])])
            ELSE << >>
    IN  IF ValidationThrows(wf, options)
        THEN ErrorResponse
        ELSE [kind |-> "report",
              valid |-> (Len(errors) = 0),
              summary |-> [totalNodes |-> Len(wf.nodes),
                           enabledNodes |-> Cardinality({ k \in 1..Len(wf.nodes) :
                                               FalsyFlag(wf.nodes[k], "disabled") }),
                           triggerNodes |-> Cardinality({ k \in 1..Len(wf.nodes) :
                                               IsTriggerType(wf.nodes[k].type) }),
                           errorCount |-> Len(errors),
                           warningCount |-> Len(warnings)],
              errors |-> errors,
              warnings |-> warnings]

\* one validate_workflow call, between other tool calls; its getWorkflow
\* may throw into the outer catch
\* the errors array kept across calls instead of created by each call
ValidateWorkflowAccumulating ==
    /\ pc = "idle"
    /\ \E options \in ValidateOptions, fetchOk \in BOOLEAN :
        /\ request' = [name |-> "n8n_validate_workflow", options |-> options]
        /\ io' = <<GetWorkflow(fetchOk)>>
        /\ response' =
             IF fetchOk
             THEN LET result == ValidationResult(remote, options)
                  IN  IF result.kind = "report" /\ response.kind = "report"
                      THEN [result EXCEPT !.errors = response.errors \o @]
                      ELSE result
             ELSE ErrorResponse
    /\ UNCHANGED <<remote, pc, call, rival, locals, writes, history>>

\* one validate_workflow call: fetch, the three checks, the summary, return
ValidateWorkflow ==
    /\ pc = "idle"
    /\ \E options \in ValidateOptions, fetchOk \in BOOLEAN :
        /\ request' = [name |-> "n8n_validate_workflow", options |-> options]
        /\ io' = <<GetWorkflow(fetchOk)>>
        /\ response' = IF fetchOk THEN ValidationResult(remote, options) ELSE ErrorResponse
    /\ UNCHANGED <<remote, pc, call, rival, locals, writes, history>>

\* ------------------------------------------------------------------------
\* autofix_workflow: autofixWorkflowHandler
\* ------------------------------------------------------------------------

\* the arguments a caller may send besides id
AutofixArgs ==
    { << >>,
      [applyFixes |-> FALSE, maxFixes |-> 1],
      [applyFixes |-> TRUE],
      [applyFixes |-> TRUE, fixTypes |-> <<"expression-format">>,
       confidenceThreshold |-> "high", maxFixes |-> 1] }

\* JSON.stringify(node.parameters).match(/\{\{\s*[^{=][^}]*\}\}/g) is not null,
\* tabulated for the parameters of this model: "{{ $json.url }}" matches
HasBadExpression(node) == node.parameters \in { [url |-> "={{ $json.url }}"] }

\* node.type.includes('Webhook'), case-sensitive, tabulated
IsWebhookType(type) == type \in { "n8n-nodes-base.respondToWebhook" }

\* node.name.toLowerCase().replace(/\s+/g, '-'), tabulated
Slug(name) == IF name = "Reply To Caller" THEN "reply-to-caller" ELSE name

\* 1. Expression format issues
ExpressionFixesOf(node) ==
    IF HasBadExpression(node)
    THEN << [node |-> Get(node, "name"), type |-> "expression-format",
             fix |-> "Add = prefix to expression", confidence |-> "high"] >>
    ELSE << >>

\* 2. Check typeVersion: !node.typeVersion
TypeVersionFixesOf(node) ==
    IF "typeVersion" \notin DOMAIN node \/ node.typeVersion = 0
    THEN << [node |-> Get(node, "name"), type |-> "typeversion-missing",
             fix |-> "Add typeVersion: 1", confidence |-> "high"] >>
    ELSE << >>

\* 3. Check webhook paths: !node.parameters?.path
WebhookFixesOf(node) ==
    IF IsWebhookType(node.type) /\ Falsy(node.parameters, "path")
    THEN << [node |-> Get(node, "name"), type |-> "webhook-missing-path",
             fix |-> "Add path: \"" \o Slug(node.name) \o "\"", confidence |-> "medium"] >>
    ELSE << >>

\* the fixes array after the three detection loops
FixesOf(nodes) ==
    Flatten([k \in 1..Len(nodes) |-> ExpressionFixesOf(nodes[k])])
    \o Flatten([k \in 1..Len(nodes) |-> TypeVersionFixesOf(nodes[k])])
    \o Flatten([k \in 1..Len(nodes) |-> WebhookFixesOf(nodes[k])])

\* a detection loop reads a property of undefined: .match of
\* JSON.stringify(undefined), .includes of an absent type, .toLowerCase of
\* an absent name
AutofixThrows(wf) ==
    \E k \in 1..Len(wf.nodes) :
        LET node == wf.nodes[k]
        IN  \/ IsNullish(node)
            \/ "parameters" \notin DOMAIN node
            \/ "type" \notin DOMAIN node
            \/ /\ IsWebhookType(node.type)
               /\ Falsy(node.parameters, "path")
               /\ "name" \notin DOMAIN node

\* workflow.nodes.find(n => n.name === fix.node): 0-based index, -1 if none
FindByName(nodes, name) ==
    LET hits == { k \in 1..Len(nodes) : Get(nodes[k], "name") = name }
    IN  IF hits = {} THEN -1 ELSE (CHOOSE k \in hits : \A h \in hits : k <= h) - 1

\* the loop `for (const fix of fixes)` from fix number k on, on the working
\* nodes and the modified flag; only 'typeversion-missing' has a case
RECURSIVE ApplyFixesFrom(_, _, _, _)
ApplyFixesFrom(k, fixes, nodes, mod) ==
    IF k > Len(fixes) THEN [nodes |-> nodes, modified |-> mod]
    ELSE LET at == FindByName(nodes, fixes[k].node)
         IN  IF at >= 0 /\ fixes[k].type = "typeversion-missing"
             THEN ApplyFixesFrom(k + 1, fixes,
                      [nodes EXCEPT ![at + 1] = Spread(@, [typeVersion |-> 1])], TRUE)
             ELSE ApplyFixesFrom(k + 1, fixes, nodes, mod)

\* the test written as `args.applyFixes !== false`: applying is the default
ApplyUnlessRefused(args) == "applyFixes" \notin DOMAIN args \/ args.applyFixes # FALSE

\* args.applyFixes is truthy
ApplyRequested(args) == ~FalsyFlag(args, "applyFixes")

\* a report that honours maxFixes: the fixes list cut to that many entries
AutofixReportCapped(args, fixes) ==
    LET shown == IF "maxFixes" \in DOMAIN args /\ args.maxFixes < Len(fixes)
                 THEN SubSeq(fixes, 1, args.maxFixes) ELSE fixes
    IN  [kind |-> "autofix",
         fixesFound |-> Len(shown),
         fixesApplied |-> IF ApplyRequested(args) THEN Len(shown) ELSE 0,
         fixes |-> shown]

\* the object the handler returns when nothing threw
AutofixReport(args, fixes) ==
    [kind |-> "autofix",
     fixesFound |-> Len(fixes),
     fixesApplied |-> IF ApplyRequested(args) THEN Len(fixes) ELSE 0,
     fixes |-> fixes]

\* one autofix_workflow call: fetch, detect, apply if asked, write back if
\* a typeVersion was set, return
AutofixWorkflow ==
    /\ pc = "idle"
    /\ writes < MaxWrites
    /\ \E args \in AutofixArgs, fetchOk \in BOOLEAN, outcome \in PutOutcomes :
        LET detected == fetchOk /\ ~AutofixThrows(remote)
            fixes == FixesOf(remote.nodes)
            result == ApplyFixesFrom(1, fixes, remote.nodes, FALSE)
            wrote == detected /\ ApplyRequested(args) /\ result.modified
            body == ToJSON([remote EXCEPT !.nodes = result.nodes])
        IN  /\ request' = [name |-> "n8n_autofix_workflow", args |-> args]
            /\ io' = <<GetWorkflow(fetchOk)>>
                     \o (IF wrote THEN <<UpdateWorkflow(outcome = "stored")>> ELSE << >>)
            /\ fetched' = remote
            /\ sent' = IF wrote THEN body ELSE NothingSent
            /\ writes' = IF wrote THEN writes + 1 ELSE writes
            /\ remote' = IF wrote /\ outcome # "rejected" THEN body ELSE remote
            /\ response' = IF detected /\ (~wrote \/ outcome = "stored")
                           THEN AutofixReport(args, fixes)
                           ELSE ErrorResponse
    /\ UNCHANGED <<pc, call, rival, locals, trace>>

\* ------------------------------------------------------------------------
\* The CallTool request handler (server.ts)
\* ------------------------------------------------------------------------

\* the keys of toolHandlers this model covers
ToolNames == { "n8n_update_partial_workflow", "n8n_validate_workflow", "n8n_autofix_workflow" }

\* the catch block: `Error executing tool '${name}': ...`, isError: true
ToolError == [content |-> [text |-> "Error executing tool"], isError |-> TRUE]

\* what the request handler returns for a request and the value its tool
\* handler returned: a new result whose text is JSON.stringify(result)
CallTool(req, result) ==
    IF req.name \notin ToolNames
    THEN ToolError
    ELSE [content |-> [text |-> result]]

\* the result the client receives for the request being served
toolResult == CallTool(request, response)

\* a request naming no key of toolHandlers: no tool handler runs
CallUnknownTool ==
    /\ pc = "idle"
    /\ request' = [name |-> "n8n_move_workflow"]
    /\ io' = << >>
    /\ response' = NoResponse
    /\ UNCHANGED <<remote, pc, call, rival, locals, writes, history>>

\* ------------------------------------------------------------------------
\* Specification
\*
\* Tool calls are served one after the other. A behaviour is a series of
\* validate_workflow calls, each one step, followed by one
\* apply_partial_update call on a document of InitialWorkflows, one loop
\* iteration per step.
\* ------------------------------------------------------------------------

Next ==
    \/ StartPartialUpdate
    \/ FetchFails
    \/ AddNode
    \/ RemoveNode
    \/ UpdateNode
    \/ ToggleNode
    \/ AddConnection
    \/ RemoveConnection
    \/ UpdateName
    \/ UpdateSettings
    \/ UnknownOperation
    \/ ReturnValidated
    \/ WriteBack
    \/ ReturnUnmodified
    \/ ValidateWorkflow

Spec == Init /\ [][Next]_vars

\* Repeated validate_workflow and autofix_workflow calls on a stored
\* document, one call at a time.
ToolsInit ==
    /\ remote \in StoredWorkflows
    /\ pc = "idle"
    /\ validateOnly = FALSE
    /\ continueOnError = FALSE
    /\ numOps = 0
    /\ workflow = remote
    /\ i = 0
    /\ op = NoOp
    /\ applied = << >>
    /\ failed = << >>
    /\ modified = FALSE
    /\ writes = 0
    /\ response = NoResponse
    /\ fetched = remote
    /\ sent = NothingSent
    /\ trace = << >>
    /\ request = NoRequest
    /\ io = << >>
    /\ rival = NoRival

ToolsNext ==
    \/ ValidateWorkflow
    \/ AutofixWorkflow
    \/ CallUnknownTool

ToolsSpec == ToolsInit /\ [][ToolsNext]_vars

\* The three tools behind the CallTool request handler: a series of
\* validate_workflow and autofix_workflow calls and of requests for unknown
\* tools, followed by one apply_partial_update call.
ServerWorkflows ==
    { Workflow(<<NodeStart, NodeEnd>>, ConnStartEnd),
      Workflow(<<NodeStart, NodeOld>>, NoConnections) }

ServerInit ==
    /\ ToolsInit
    /\ remote \in ServerWorkflows

ServerNext ==
    \/ Next
    \/ AutofixWorkflow
    \/ CallUnknownTool

ServerSpec == ServerInit /\ [][ServerNext]_vars

\* ------------------------------------------------------------------------
\* Two invocations in flight
\*
\* A handler gives up control at its two awaits only (getWorkflow and
\* updateWorkflow), so a second invocation runs from the resolution of its
\* fetch to the sending of its PUT without interruption. The second
\* invocation (`rival`) is one step for its fetch and synchronous part and
\* one for the arrival of its PUT; the first is the step-by-step
\* apply_partial_update call above.
\* ------------------------------------------------------------------------

\* the calls the second invocation may serve
RivalCalls ==
    { [name |-> "n8n_update_partial_workflow",
       operations |-> << [type |-> "updateName", name |-> "Renamed by rival"] >>],
      [name |-> "n8n_autofix_workflow", args |-> [applyFixes |-> TRUE]] }

\* the working document and the modified flag of the second invocation when
\* its synchronous part is over, for the document doc it fetched
RivalResult(c, doc) ==
    IF c.name = "n8n_autofix_workflow"
    THEN IF AutofixThrows(doc)
         THEN [workflow |-> doc, modified |-> FALSE, threw |-> TRUE]
         ELSE LET result == ApplyFixesFrom(1, FixesOf(doc.nodes), doc.nodes, FALSE)
              IN  [workflow |-> [doc EXCEPT !.nodes = result.nodes],
                   modified |-> result.modified, threw |-> FALSE]
    ELSE [workflow |-> [doc EXCEPT !.name = c.operations[1].name],
          modified |-> TRUE, threw |-> FALSE]

\* getWorkflow of the second invocation resolves; its loop runs to the end
RivalFetch ==
    /\ rival.pc = "idle"
    /\ \E c \in RivalCalls :
        LET result == RivalResult(c, remote)
        IN  rival' = [pc |-> "fetched", call |-> c, fetched |-> remote,
                      workflow |-> result.workflow, modified |-> result.modified,
                      threw |-> result.threw,
                      beforeWrite |-> (Writes(io) = {})]
    /\ UNCHANGED <<remote, pc, call, locals, writes, response, history, request, io>>

\* the PUT of the second invocation arrives: the document is replaced
RivalWriteBack ==
    /\ rival.pc = "fetched"
    /\ rival.modified
    /\ writes' = writes + 1
    /\ \E outcome \in PutOutcomes :
        /\ remote' = IF outcome = "rejected" THEN remote ELSE ToJSON(rival.workflow)
        /\ rival' = Spread(rival, [pc |-> "done", sent |-> ToJSON(rival.workflow),
                                   ok |-> (outcome = "stored"),
                                   firstAt |-> pc, first |-> (Writes(io) = {})])
    /\ UNCHANGED <<pc, call, locals, response, history, request, io>>

\* the second invocation has nothing to write, or threw
RivalReturn ==
    /\ rival.pc = "fetched"
    /\ ~rival.modified
    /\ rival' = Spread(rival, [pc |-> "done", ok |-> ~rival.threw])
    /\ UNCHANGED <<remote, pc, call, locals, writes, response, history, request, io>>

\* the document both invocations work on
RaceWorkflows == { Workflow(<<NodeStart, NodeEnd, NodeOld>>, ConnStartEnd) }

RaceInit ==
    /\ ToolsInit
    /\ remote \in RaceWorkflows

RaceNext ==
    \/ Next
    \/ RivalFetch
    \/ RivalWriteBack
    \/ RivalReturn

RaceSpec == RaceInit /\ [][RaceNext]_vars

\* ------------------------------------------------------------------------
\* Properties of apply_partial_update
\* ------------------------------------------------------------------------

Indices(records) == { records[k].index : k \in 1..Len(records) }

Increasing(records) ==
    \A j, k \in 1..Len(records) : j < k => records[j].index < records[k].index

\* C1: with validateOnly = true no updateWorkflow call is made and the remote
\* document stays as fetched, whatever the operations and continueOnError.
C1_ValidateOnlyNeverWrites ==
    validateOnly => (writes = 0 /\ remote = fetched)

\* a dry run that applied one operation and failed another has returned
C1_Witness ==
    /\ pc = "done"
    /\ validateOnly
    /\ response.kind = "validated"
    /\ modified
    /\ Len(applied) > 0
    /\ Len(failed) > 0

\* C2: under the atomic policy the first failure is the only failed record,
\* every applied record has a smaller index, and the loop is left at that
\* index: no later operation is attempted or recorded.
C2_AtomicStopsAtFirstFailure ==
    (~continueOnError /\ failed # << >>) =>
        /\ Len(failed) = 1
        /\ \A k \in 1..Len(applied) : applied[k].index < failed[1].index
        /\ Indices(applied) = 0..(failed[1].index - 1)
        /\ i = failed[1].index
        /\ pc \in {"exit", "done"}
        /\ Len(trace) = failed[1].index + 1

\* an atomic batch whose second operation failed after the first was applied
C2_Witness ==
    /\ pc = "done"
    /\ ~continueOnError
    /\ numOps = 2
    /\ Len(applied) = 1
    /\ Len(failed) = 1
    /\ failed[1].index = 1

\* C3: under continueOnError every operation is attempted in index order and
\* its index is in exactly one of applied and failed, both in increasing
\* index order, so that at the end len(applied) + len(failed) = len(operations).
C3_ContinueOnErrorPartition ==
    (continueOnError /\ pc # "idle") =>
        /\ Indices(applied) \cup Indices(failed) = 0..(i - 1)
        /\ Indices(applied) \cap Indices(failed) = {}
        /\ Len(applied) + Len(failed) = i
        /\ Increasing(applied)
        /\ Increasing(failed)
        /\ Len(trace) = i
        /\ pc # "exit"
        /\ (pc = "done" => Len(applied) + Len(failed) = numOps)
        /\ (response.kind = "success" =>
                response.applied + response.failed = numOps)
        /\ (response.kind = "validated" =>
                response.wouldApply + response.wouldFail = numOps)

\* a continueOnError batch went on after a failure and applied a later operation
C3_Witness ==
    /\ pc = "done"
    /\ continueOnError
    /\ numOps = 2
    /\ Len(failed) = 1
    /\ Len(applied) = 1
    /\ failed[1].index = 0
    /\ applied[1].index = 1

\* C4 as stated: one write exactly when the working document differs from
\* the fetched one and validateOnly is not set, none in every other case.
C4_WriteIffGraphChanged ==
    pc = "done" =>
        writes = (IF ~validateOnly /\ workflow # fetched THEN 1 ELSE 0)

\* an addNode reached its push and then failed
PushedThenFailed == \E k \in 1..Len(failed) : failed[k].type = "addNode"

\* C4, amended: one write exactly when validateOnly is not set and some
\* operation set the modified flag, i.e. an operation was applied or an
\* addNode failed after its push; none in every other case, and none before
\* the loop is over. A batch that leaves the document as fetched still writes.
C4_WriteIffModified ==
    /\ writes \in {0, 1}
    /\ (pc # "done" => writes = 0)
    /\ (pc = "done" =>
            writes = (IF ~validateOnly /\ (applied # << >> \/ PushedThenFailed)
                      THEN 1 ELSE 0))

\* a batch whose applied operations left the document as fetched was written
C4_Witness ==
    /\ pc = "done"
    /\ writes = 1
    /\ applied # << >>
    /\ workflow = fetched
    /\ sent = fetched

\* C5: under the atomic policy, when operation i fails after 0..i-1 were
\* applied, the document written back is the one operations 0..i-1 produced:
\* their effects and nothing of operation i.
C5_AtomicWritesAppliedPrefix ==
    (pc = "done" /\ ~continueOnError /\ ~validateOnly /\ failed # << >> /\ writes = 1) =>
        sent = ToJSON(trace[Len(trace)].before)

\* C6: a batch in which no operation was applied makes no write and leaves
\* the remote document as it was.
C6_NothingAppliedNoWrite ==
    (pc = "done" /\ applied = << >>) => (writes = 0 /\ remote = fetched)

LookupTypes == {"removeNode", "updateNode", "enableNode", "disableNode"}

\* node n has the id or the name operation o carries
CarriedMatch(n, o) ==
    /\ ~IsNullish(n)
    /\ \/ ("nodeId" \in DOMAIN o /\ "id" \in DOMAIN n /\ n.id = o.nodeId)
       \/ ("nodeName" \in DOMAIN o /\ "name" \in DOMAIN n /\ n.name = o.nodeName)

\* C7: a removeNode, updateNode, enableNode or disableNode whose nodeId and
\* nodeName match no node is recorded as failed with "Node not found:
\* <identifier>" and leaves the node sequence unchanged.
C7_NoMatchFailsNodeNotFound ==
    [][ ( /\ InLoop
          /\ op'.type \in LookupTypes
          /\ \A k \in 1..Len(workflow.nodes) : ~CarriedMatch(workflow.nodes[k], op') )
        => ( /\ failed' = Append(failed, [index |-> i, type |-> op'.type,
                                         error |-> NodeNotFound(op')])
             /\ applied' = applied
             /\ workflow'.nodes = workflow.nodes ) ]_vars

\* C8: an enableNode (disableNode) that matches a node sets that node's
\* disabled flag to false (true), is recorded in applied with its index, type
\* and the node's name, and changes nothing else in the document.
C8_ToggleSetsFlagOfMatchedNode ==
    [][ ( /\ InLoop
          /\ op'.type \in {"enableNode", "disableNode"}
          /\ \E k \in 1..Len(workflow.nodes) : CarriedMatch(workflow.nodes[k], op') )
        => \E k \in 1..Len(workflow.nodes) :
             /\ CarriedMatch(workflow.nodes[k], op')
             /\ workflow' = [workflow EXCEPT !.nodes[k] =
                                Spread(@, [disabled |-> (op'.type = "disableNode")])]
             /\ applied' = Append(applied, [index |-> i, type |-> op'.type,
                                           nodeName |-> Get(workflow.nodes[k], "name")])
             /\ failed' = failed ]_vars

NodeSet(wf) == { wf.nodes[k] : k \in 1..Len(wf.nodes) }

\* operation o names node n: it carries n's id and/or n's name and nothing else
Identifies(o, n) ==
    /\ "nodeId" \in DOMAIN o \/ "nodeName" \in DOMAIN o
    /\ "nodeId" \in DOMAIN o => ("id" \in DOMAIN n /\ n.id = o.nodeId)
    /\ "nodeName" \in DOMAIN o => ("name" \in DOMAIN n /\ n.name = o.nodeName)

\* C9: removeNode identifying a node N of the document followed by addNode
\* carrying N gives a document with the same set of nodes as before the two.
C9_RemoveThenAddRestoresNodeSet ==
    Len(trace) >= 2 =>
        LET rm == trace[Len(trace) - 1]
            add == trace[Len(trace)]
        IN  ( /\ rm.op.type = "removeNode"
              /\ add.op.type = "addNode"
              /\ "node" \in DOMAIN add.op
              /\ add.op.node \in NodeSet(rm.before)
              /\ Identifies(rm.op, add.op.node) )
            => NodeSet(workflow) = NodeSet(rm.before)

\* the node names the connection entries of wf point at
TargetNames(wf) ==
    { wf.connections[e][2][o][2][g][t].node :
        <<e, o, g, t>> \in { q \in (1..Len(wf.connections)) \X (1..1) \X (1..1) \X (1..1) :
            /\ q[2] <= Len(wf.connections[q[1]][2])
            /\ q[3] <= Len(wf.connections[q[1]][2][q[2]][2])
            /\ q[4] <= Len(wf.connections[q[1]][2][q[2]][2][q[3]]) } }

\* C10: removeNode leaves connections alone, so once a removed node that is
\* the target of a connection entry (and whose name no remaining node has) is
\* gone from the written-back document, validate_workflow with the connection
\* check on returns valid = false with "Target node not found" for it.
C10_DanglingTargetReported ==
    (pc = "done" /\ writes = 1 /\ remote = sent) =>
        \A k \in 1..Len(trace) :
            LET e == trace[k]
                removeIndex == FindIndex(e.before.nodes, e.op)
                gone == Get(e.before.nodes[removeIndex.index + 1], "name")
            IN  ( /\ e.op.type = "removeNode"
                  /\ ~removeIndex.threw
                  /\ removeIndex.index >= 0
                  /\ remote.connections = fetched.connections
                  /\ gone \in TargetNames(remote)
                  /\ gone \notin NodeNames(remote.nodes) )
                => \A options \in ValidateOptions :
                     CheckEnabled(options, "validateConnections") =>
                        LET result == ValidationResult(remote, options)
                        IN  /\ result.kind = "report"
                            /\ ~result.valid
                            /\ \E j \in 1..Len(result.errors) :
                                 result.errors[j].message = "Target node not found: " \o gone

\* ------------------------------------------------------------------------
\* validate_workflow reports (ToolsSpec)
\* ------------------------------------------------------------------------

\* the last request was validate_workflow and its fetch returned the document
ValidateReturned ==
    /\ request.name = "n8n_validate_workflow"
    /\ io = <<GetWorkflow(TRUE)>>

\* the names the nodes of a document carry
NamesOf(wf) ==
    { wf.nodes[k].name : k \in { j \in 1..Len(wf.nodes) : "name" \in DOMAIN wf.nodes[j] } }

\* the nested target entries under one source key, in order
TargetsOf(entry) == Flatten([o \in 1..Len(entry[2]) |-> Flatten(entry[2][o][2])])

Count(seq, x) == Cardinality({ j \in 1..Len(seq) : seq[j] = x })

CountWhere(seq, Test(_)) == Cardinality({ j \in 1..Len(seq) : Test(seq[j]) })

ConnectionErrors(errors) == SelectSeq(errors, LAMBDA e : "connection" \in DOMAIN e)

NodeErrors(errors) == SelectSeq(errors, LAMBDA e : "node" \in DOMAIN e)

DanglingSources(wf) ==
    { e \in 1..Len(wf.connections) : wf.connections[e][1] \notin NamesOf(wf) }

DanglingTargets(wf) ==
    { q \in (1..Len(wf.connections)) \X (1..4) :
        /\ q[2] <= Len(TargetsOf(wf.connections[q[1]]))
        /\ TargetsOf(wf.connections[q[1]])[q[2]].node \notin NamesOf(wf) }

\* C11: with the connection check enabled validate_workflow reports exactly
\* one "Source node not found" error per source key that is no node's name
\* and exactly one "Target node not found" error, labelled
\* "<source> -> <target>", per nested target entry whose node is no node's
\* name, and no other connection error.
C11_ConnectionErrorsExact ==
    (ValidateReturned /\ CheckEnabled(request.options, "validateConnections")) =>
        /\ response.kind = "report"
        /\ LET names == NamesOf(remote)
               reported == ConnectionErrors(response.errors)
           IN  /\ \A e \in 1..Len(remote.connections) :
                    LET src == remote.connections[e][1]
                        targets == TargetsOf(remote.connections[e])
                    IN  /\ Count(reported, [connection |-> src,
                                            message |-> "Source node not found: " \o src])
                             = IF src \in names THEN 0 ELSE 1
                        /\ \A t \in 1..Len(targets) :
                             LET node == targets[t].node
                             IN  Count(reported,
                                       [connection |-> src \o " -> " \o node,
                                        message |-> "Target node not found: " \o node])
                                 = IF node \in names THEN 0
                                   ELSE Cardinality({ u \in 1..Len(targets) :
                                                        targets[u].node = node })
               /\ Len(reported) = Cardinality(DanglingSources(remote))
                                   + Cardinality(DanglingTargets(remote))

MissingField(wf, f) == { k \in 1..Len(wf.nodes) : f \notin DOMAIN wf.nodes[k] }

BadPosition(wf) ==
    { k \in 1..Len(wf.nodes) :
        "position" \notin DOMAIN wf.nodes[k] \/ Len(wf.nodes[k].position) # 2 }

\* C12: with the node check enabled validate_workflow reports one error per
\* node and missing field among id, name and type, and one warning, not an
\* error, per node whose position is missing or not of length 2; valid is
\* true exactly when errors is empty; summary.errorCount and
\* summary.warningCount are the lengths of the two lists.
C12_NodeFieldErrorsAndWarnings ==
    (ValidateReturned /\ CheckEnabled(request.options, "validateNodes")) =>
        /\ response.kind = "report"
        /\ LET reported == NodeErrors(response.errors)
           IN  /\ CountWhere(reported, LAMBDA e : e.message = "Missing node ID")
                    = Cardinality(MissingField(remote, "id"))
               /\ CountWhere(reported, LAMBDA e : e.message = "Missing node name")
                    = Cardinality(MissingField(remote, "name"))
               /\ CountWhere(reported, LAMBDA e : e.message = "Missing node type")
                    = Cardinality(MissingField(remote, "type"))
               /\ Len(reported) = Cardinality(MissingField(remote, "id"))
                                   + Cardinality(MissingField(remote, "name"))
                                   + Cardinality(MissingField(remote, "type"))
               /\ Len(response.warnings) = Cardinality(BadPosition(remote))
               /\ \A w \in 1..Len(response.warnings) :
                    response.warnings[w].message = "Invalid or missing position"
               /\ \A e \in 1..Len(response.errors) :
                    response.errors[e].message # "Invalid or missing position"
        /\ response.valid <=> (Len(response.errors) = 0)
        /\ response.summary.errorCount = Len(response.errors)
        /\ response.summary.warningCount = Len(response.warnings)

\* C13: whatever document the fetch returns, a node missing id, name, type
\* or position or a dangling connection included, validate_workflow returns
\* a report and not an error result.
C13_DefectsNeverFatal ==
    ValidateReturned => (response.kind = "report" /\ "isError" \notin DOMAIN response)

\* C14: a validate_workflow call performs no Remote Sync write and leaves
\* the stored document as it is, and a call that repeats the previous call's
\* options on the document that call left returns the same errors and the
\* same warnings in the same order.
C14_ValidateIsPureAndRepeatable ==
    [][ request'.name = "n8n_validate_workflow" =>
          /\ remote' = remote
          /\ writes' = writes
          /\ sent' = sent
          /\ \A j \in 1..Len(io') : io'[j].call # "updateWorkflow"
          /\ ( /\ request' = request
               /\ io = <<GetWorkflow(TRUE)>>
               /\ io' = io
               /\ response.kind = "report" )
             => /\ response'.kind = "report"
                /\ response'.errors = response.errors
                /\ response'.warnings = response.warnings ]_vars

\* validate_workflow has returned a report with errors and warnings on a
\* document an earlier autofix_workflow call wrote; it has written nothing
C14_Witness ==
    /\ ValidateReturned
    /\ response.kind = "report"
    /\ response.errors # << >>
    /\ response.warnings # << >>
    /\ writes = 1
    /\ sent = remote

\* the flag is sent as false
SwitchedOff(options, f) == f \in DOMAIN options /\ options[f] = FALSE

\* C15: with validateNodes = false the result holds no node-field error and
\* no position warning, with validateConnections = false it holds no source
\* or target error, each whatever the other flags are; with options absent
\* both checks run: a node without id or name, a bad position and a dangling
\* source or target each show in the report.
C15_ChecksToggleIndependently ==
    (ValidateReturned /\ response.kind = "report") =>
        /\ SwitchedOff(request.options, "validateNodes") =>
              /\ NodeErrors(response.errors) = << >>
              /\ response.warnings = << >>
        /\ SwitchedOff(request.options, "validateConnections") =>
              ConnectionErrors(response.errors) = << >>
        /\ DOMAIN request.options = {} =>
              /\ (MissingField(remote, "id") \cup MissingField(remote, "name") # {})
                    => NodeErrors(response.errors) # << >>
              /\ (BadPosition(remote) # {}) => response.warnings # << >>
              /\ (DanglingSources(remote) # {} \/ DanglingTargets(remote) # {})
                    => ConnectionErrors(response.errors) # << >>

\* the node check was switched off alone on a document with a node without
\* id and dangling connections: the report holds the connection errors only
C15_Witness ==
    /\ ValidateReturned
    /\ DOMAIN request.options = {"validateNodes"}
    /\ SwitchedOff(request.options, "validateNodes")
    /\ MissingField(remote, "id") # {}
    /\ DanglingTargets(remote) # {}
    /\ response.kind = "report"
    /\ response.errors # << >>
    /\ NodeErrors(response.errors) = << >>

\* ------------------------------------------------------------------------
\* autofix_workflow (ToolsSpec)
\* ------------------------------------------------------------------------

\* applyFixes is absent or false
Preview(args) == "applyFixes" \notin DOMAIN args \/ args.applyFixes = FALSE

\* C16: an autofix_workflow call in preview mode (applyFixes absent or
\* false) makes no updateWorkflow call, leaves the stored document as it is,
\* and the report it returns has fixesApplied = 0, whatever the document and
\* however many fixes were found.
C16_PreviewWritesNothing ==
    [][ (request'.name = "n8n_autofix_workflow" /\ Preview(request'.args)) =>
          /\ Writes(io') = {}
          /\ writes' = writes
          /\ remote' = remote
          /\ sent' = NothingSent
          /\ response'.kind \in {"autofix", "error"}
          /\ response'.kind = "autofix" =>
                /\ response'.fixesApplied = 0
                /\ response'.fixesFound = Len(response'.fixes) ]_vars

\* a preview found a missing typeVersion among several fixes and applied none
C16_Witness ==
    /\ request.name = "n8n_autofix_workflow"
    /\ Preview(request.args)
    /\ response.kind = "autofix"
    /\ response.fixesFound >= 2
    /\ \E k \in 1..Len(response.fixes) : response.fixes[k].type = "typeversion-missing"
    /\ response.fixesApplied = 0
    /\ MissingField(remote, "typeVersion") # {}
    /\ writes = 0

\* the last request was autofix_workflow with applyFixes set and its fetch
\* returned the document
AppliedAutofixReturned ==
    /\ request.name = "n8n_autofix_workflow"
    /\ ~Preview(request.args)
    /\ io # << >>
    /\ io[1] = GetWorkflow(TRUE)

\* C17: with applyFixes = true at most one updateWorkflow call is made, and
\* only when a node lacked typeVersion; the document it sends is the fetched
\* document with typeVersion = 1 added to every node that lacked it: a node
\* that had a typeVersion is sent unchanged, and so are all parameters.
C17_WriteBackAddsTypeVersionOnly ==
    AppliedAutofixReturned =>
        /\ Cardinality(Writes(io)) <= 1
        /\ Writes(io) # {} =>
              /\ MissingField(fetched, "typeVersion") # {}
              /\ [sent EXCEPT !.nodes = fetched.nodes] = fetched
              /\ Len(sent.nodes) = Len(fetched.nodes)
              /\ \A k \in 1..Len(fetched.nodes) :
                    sent.nodes[k] =
                        IF k \in MissingField(fetched, "typeVersion")
                        THEN Spread(fetched.nodes[k], [typeVersion |-> 1])
                        ELSE fetched.nodes[k]

TypeVersionFindings(fixes) == SelectSeq(fixes, LAMBDA f : f.type = "typeversion-missing")

\* C18: the autofix_workflow call that follows a call with applyFixes = true
\* whose write-back was stored finds no missing typeVersion on the document
\* that call wrote; when the first call found nothing but missing
\* typeVersions, the second reports fixesApplied = 0 and writes nothing.
C18_SecondRunFindsNoTypeVersion ==
    [][ ( /\ AppliedAutofixReturned
          /\ io = <<GetWorkflow(TRUE), UpdateWorkflow(TRUE)>>
          /\ response.kind = "autofix"
          /\ request'.name = "n8n_autofix_workflow"
          /\ io'[1] = GetWorkflow(TRUE) )
        => /\ response'.kind = "autofix"
           /\ TypeVersionFindings(response'.fixes) = << >>
           /\ (TypeVersionFindings(response.fixes) = response.fixes)
                 => /\ response'.fixesApplied = 0
                    /\ Writes(io') = {}
                    /\ remote' = remote ]_vars

\* ------------------------------------------------------------------------
\* Transport failures and the CallTool request handler (ServerSpec)
\* ------------------------------------------------------------------------

\* the fields in which a handler result carries per-operation or per-fix records
RecordFields ==
    {"operations", "failures", "applied", "failed", "wouldApply", "wouldFail",
     "fixes", "fixesFound", "fixesApplied", "errors", "warnings"}

IsErrorResult(r) == "isError" \in DOMAIN r /\ r.isError = TRUE

\* C19: when the fetch of a tool call fails, apply_partial_update,
\* validate_workflow and autofix_workflow alike return an error result and
\* attempt no write; when the write-back fails, the result is an error
\* result that carries no applied, failed or fixes records.
C19_TransportFailureIsOneError ==
    [][ /\ (io' # << >> /\ io'[1] = GetWorkflow(FALSE)) =>
              /\ IsErrorResult(response')
              /\ DOMAIN response' \cap RecordFields = {}
              /\ Len(io') = 1
              /\ writes' = writes
              /\ remote' = remote
        /\ (\E j \in Writes(io') : ~io'[j].ok) =>
              /\ IsErrorResult(response')
              /\ DOMAIN response' \cap RecordFields = {} ]_vars

\* apply_partial_update applied one operation and recorded one failure, and
\* its write-back failed: the error result holds neither record
C19_Witness ==
    /\ request.name = "n8n_update_partial_workflow"
    /\ pc = "done"
    /\ applied # << >>
    /\ failed # << >>
    /\ io = <<GetWorkflow(TRUE), UpdateWorkflow(FALSE)>>
    /\ IsErrorResult(response)
    /\ DOMAIN response \cap RecordFields = {}

\* C20: every CallTool request gets a structured result; when the tool
\* handler's result is flagged isError (a transport failure) the result
\* returned to the client has isError = true, and when the handler returned
\* a result with per-operation failures only it has not.
C20_HandlerErrorReachesClient ==
    (request.name # "none" /\ (request.name \in ToolNames => response.kind # "none")) =>
        /\ "content" \in DOMAIN toolResult
        /\ IsErrorResult(response) => IsErrorResult(toolResult)
        /\ (response.kind = "success" /\ response.failures # << >>)
              => ~IsErrorResult(toolResult)

\* ------------------------------------------------------------------------
\* Two writers (RaceSpec)
\* ------------------------------------------------------------------------

\* both invocations are over, each fetched before the other's PUT arrived,
\* and each reached its write-back with its modified flag set
BothFetchedThenWrote ==
    /\ pc = "done"
    /\ io # << >>
    /\ io[1] = GetWorkflow(TRUE)
    /\ ~validateOnly
    /\ modified
    /\ rival.pc = "done"
    /\ rival.modified
    /\ rival.beforeWrite
    /\ rival.firstAt # "idle"

\* C21: when two mutating invocations on one document both fetch before
\* either writes, neither detects the other: each sends its PUT, nothing is
\* retried, and when both PUTs are stored both calls report success and the
\* stored document is the body of the PUT that arrived last, built from the
\* document both fetched.
C21_LastWriterWins ==
    BothFetchedThenWrote =>
        /\ Cardinality(Writes(io)) = 1
        /\ writes = 2
        /\ rival.fetched = fetched
        /\ (io[2].ok /\ rival.ok) =>
              /\ response.kind = "success"
              /\ remote = IF rival.first THEN sent ELSE rival.sent

\* the rival's PUT arrived first and was stored; the later PUT of
\* apply_partial_update replaced it, so the rival's change is gone from the
\* stored document although both calls succeeded
C21_Witness ==
    /\ BothFetchedThenWrote
    /\ io[2].ok
    /\ rival.ok
    /\ rival.first
    /\ rival.sent # fetched
    /\ response.kind = "success"
    /\ applied # << >>
    /\ remote = sent
    /\ remote # rival.sent
    /\ remote.name = fetched.name
    /\ rival.sent.name # fetched.name

\* ------------------------------------------------------------------------
\* Lookup and node operations (Spec)
\* ------------------------------------------------------------------------

\* the positions of the nodes whose id is the nodeId operation o carries
IdMatches(nodes, o) ==
    { k \in 1..Len(nodes) :
        ~IsNullish(nodes[k]) /\ "id" \in DOMAIN nodes[k] /\ nodes[k].id = o.nodeId }

\* what operation o of a lookup type does to the node at position k
Affected(wf, o, k) ==
    IF o.type = "removeNode"
    THEN [wf EXCEPT !.nodes = Splice(@, k - 1)]
    ELSE IF o.type = "updateNode"
    THEN [wf EXCEPT !.nodes[k] = Spread(@, o.updates)]
    ELSE [wf EXCEPT !.nodes[k] = Spread(@, [disabled |-> (o.type = "disableNode")])]

\* C22: a removeNode, updateNode, enableNode or disableNode that carries
\* both nodeId and nodeName, and whose nodeId is the id of some node, affects
\* the first node with that id, also when a node placed before it has the
\* name nodeName.
C22_IdTakesPrecedence ==
    [][ ( /\ InLoop
          /\ op'.type \in LookupTypes
          /\ "nodeId" \in DOMAIN op'
          /\ "nodeName" \in DOMAIN op'
          /\ IdMatches(workflow.nodes, op') # {} )
        => LET hits == IdMatches(workflow.nodes, op')
               k == CHOOSE h \in hits : \A j \in hits : h <= j
           IN  workflow' = Affected(workflow, op', k) ]_vars

\* new is old with the patch laid over it: patch fields from the patch, all
\* other fields as they were
ShallowMerged(old, patch, new) ==
    /\ DOMAIN new = (DOMAIN old) \cup (DOMAIN patch)
    /\ \A f \in DOMAIN patch : new[f] = patch[f]
    /\ \A f \in (DOMAIN old) \ (DOMAIN patch) : new[f] = old[f]

\* C23: an updateNode whose nodeId or nodeName is carried by a node replaces
\* such a node, at its place in the sequence, by the shallow merge of the
\* patch over it, and changes no other node, nor the name, the settings or
\* the connections.
C23_UpdateNodeShallowMerge ==
    [][ ( /\ InLoop
          /\ op'.type = "updateNode"
          /\ \E k \in 1..Len(workflow.nodes) : CarriedMatch(workflow.nodes[k], op') )
        => \E k \in 1..Len(workflow.nodes) :
             /\ CarriedMatch(workflow.nodes[k], op')
             /\ Len(workflow'.nodes) = Len(workflow.nodes)
             /\ ShallowMerged(workflow.nodes[k], op'.updates, workflow'.nodes[k])
             /\ \A j \in 1..Len(workflow.nodes) : j # k => workflow'.nodes[j] = workflow.nodes[j]
             /\ [workflow' EXCEPT !.nodes = workflow.nodes] = workflow ]_vars

\* the connections of wf hold an entry from node source to node target
Connects(wf, source, target) ==
    \E e \in 1..Len(wf.connections) :
        /\ wf.connections[e][1] = source
        /\ \E t \in 1..Len(TargetsOf(wf.connections[e])) :
              TargetsOf(wf.connections[e])[t].node = target

\* C24: an applied addConnection leaves the connections holding the
\* connection it describes, an applied removeConnection leaves them without
\* it; both are applied whether or not the named nodes exist, and neither
\* changes the node sequence.
C24_ConnectionOpsMutateConnections ==
    [][ (InLoop /\ op'.type \in {"addConnection", "removeConnection"}) =>
          /\ applied' = Append(applied, [index |-> i, type |-> op'.type])
          /\ workflow'.nodes = workflow.nodes
          /\ Connects(workflow', op'.source, op'.target) <=> (op'.type = "addConnection") ]_vars

\* node carries the name or the id of a node of the sequence
Duplicates(node, nodes) ==
    \E k \in 1..Len(nodes) :
        /\ ~IsNullish(nodes[k])
        /\ \/ ("name" \in DOMAIN node /\ "name" \in DOMAIN nodes[k] /\ nodes[k].name = node.name)
           \/ ("id" \in DOMAIN node /\ "id" \in DOMAIN nodes[k] /\ nodes[k].id = node.id)

\* C25: once an addNode that appended a node with the name or id of a node
\* already in the document has been written back, validate_workflow with
\* the node and connection checks on reports an error or a warning.
C25_DuplicateCaughtByValidation ==
    (pc = "done" /\ writes = 1 /\ remote = sent) =>
        \A k \in 1..Len(trace) :
            ( /\ trace[k].op.type = "addNode"
              /\ "node" \in DOMAIN trace[k].op
              /\ Duplicates(trace[k].op.node, trace[k].before.nodes)
              /\ Len(remote.nodes) = Len(trace[k].before.nodes) + 1 )
            => \A options \in ValidateOptions :
                 ( /\ CheckEnabled(options, "validateNodes")
                   /\ CheckEnabled(options, "validateConnections") )
                 => LET result == ValidationResult(remote, options)
                    IN  /\ result.kind = "report"
                        /\ result.errors # << >> \/ result.warnings # << >>

\* ------------------------------------------------------------------------
\* Summary counts and autofix arguments (ToolsSpec)
\* ------------------------------------------------------------------------

\* C26: in every report of validate_workflow summary.triggerNodes is the
\* number of nodes whose type holds the webhook, the schedule or the generic
\* trigger marker, the count get_workflow gives in details mode, and valid
\* depends on the errors list alone.
C26_TriggerNodesCount ==
    (ValidateReturned /\ response.kind = "report") =>
        /\ response.summary.triggerNodes = DetailsTriggerNodes(remote)
        /\ response.valid <=> (response.errors = << >>)

\* the last request was autofix_workflow and its fetch returned the document
AutofixReturned ==
    /\ request.name = "n8n_autofix_workflow"
    /\ io # << >>
    /\ io[1] = GetWorkflow(TRUE)

\* a write-back that failed leaves an error result in place of the report
WriteFailed == \E j \in Writes(io) : ~io[j].ok

C28_FailedOpLeavesGraph ==
    [][(pc = "loop" /\ Len(failed') > Len(failed)) => workflow' = workflow]_vars

\* the step handled one operation of the batch, of one of the given types
Handled(types) ==
    /\ Len(trace') = Len(trace) + 1
    /\ trace'[Len(trace')].op.type \in types

\* C29: moveNode, addTag and removeTag are types the schema accepts, and an
\* operation of one of them always fails: it is recorded in failed with
\* "Unknown operation type: <type>", nothing is recorded in applied, the working
\* graph and the modified flag stay as they were, and under the atomic policy
\* the loop is left.
C29_UnimplementedTypesFail ==
    [][Handled({"moveNode", "addTag", "removeTag"}) =>
        LET t == trace'[Len(trace')].op.type
        IN  /\ t \in PartialUpdateOperationTypes
            /\ failed' = Append(failed, [index |-> i, type |-> t,
                                         error |-> "Unknown operation type: " \o t])
            /\ applied' = applied
            /\ workflow' = workflow
            /\ modified' = modified
            /\ pc' = IF continueOnError THEN "loop" ELSE "exit"]_vars

\* an atomic batch whose first operation was applied stopped at an addTag
C29_Witness ==
    /\ pc = "exit"
    /\ ~continueOnError
    /\ Len(applied) = 1
    /\ Len(failed) = 1
    /\ failed[1] = [index |-> 1, type |-> "addTag",
                    error |-> "Unknown operation type: addTag"]
    /\ workflow = trace[Len(trace)].before

\* the typeVersion fixes of a run that reached the nodes of the document sent:
\* the nodes that had no typeVersion when fetched and have one in the body
FixesWritten ==
    IF sent = NothingSent THEN 0
    ELSE Cardinality({ k \in DOMAIN fetched.nodes :
            /\ k \in DOMAIN sent.nodes
            /\ "typeVersion" \notin DOMAIN fetched.nodes[k]
            /\ "typeVersion" \in DOMAIN sent.nodes[k] })

\* C30: a report of autofix_workflow called with applyFixes = true gives as
\* fixesApplied the number of fixes mutated onto the document written back,
\* so 0 when nothing was written.
C30_FixesAppliedCountsWrites ==
    (AutofixReturned /\ ~Preview(request.args) /\ response.kind = "autofix") =>
        response.fixesApplied = FixesWritten

====
